---------------------------- MODULE Spec2Model ----------------------------
(***************************************************************************)
(* A model of lazyflow/operators/obsolete/vigraOperators.py:               *)
(*   - OpH5WriterBigDataset.execute, the throttled chunked writer, with    *)
(*     its setupOutputs (chunk shape) and computeRequestSlicings;          *)
(*   - OpPixelFeaturesPresmoothed, the multi-scale feature cascade         *)
(*     (setupOutputs, execute, propagateDirty);                            *)
(*   - OpBaseVigraFilter.execute, the windowed filter engine: its halo     *)
(*     arithmetic, its channel loop and its failure handlers.              *)
(* Scales are held in tenths (0.3 is 3, 1.0 is 10, 3.5 is 35) so that the  *)
(* halo arithmetic stays in the integers.                                  *)
(***************************************************************************)
EXTENDS Integers, Sequences, FiniteSets, TLC

VARIABLES
    \* ---- OpH5WriterBigDataset.execute
    wpc,              \* position of the writer inside execute
    reqList,          \* what computeRequestSlicings returned (block ids)
    slicings,         \* the blocks not requested yet
    activeRequests,   \* deque of requests created and not popped yet
    activeSlicings,   \* deque of the blocks of activeRequests
    req,              \* the request execute holds (0: none)
    primeLeft,        \* iterations left of the start-up loop
    completed,        \* requests the upstream source has finished
    counter,          \* the loop's counter
    progress,         \* the values handed to progressSignal, in order
    issued,           \* blocks in the order their requests were created
    written,          \* blocks in the order they were stored in self.d
    result0,          \* result[0]
    overtook,         \* some request finished before an older one did
    failed,           \* requests the upstream source has failed
    \* ---- OpH5WriterBigDataset.setupOutputs, computeRequestSlicings
    image,            \* Image.meta: [axistags, shape, dtypeBytes]
    chunkShape,       \* self.chunkShape; <<>> before it is assigned
    blocks,           \* the list computeRequestSlicings returned
    stpc,             \* position of the writer's setup
    \* ---- OpPixelFeaturesPresmoothed: inputs and attributes
    inMeta,           \* Input.meta: [axistags, shape]
    featureIds,       \* FeatureIds.value as setupOutputs last read it
    scales,           \* self.scales (tenths)
    matrix,           \* self.matrix: rows of 0/1 cells
    newScales,        \* self.newScales (tenths)
    featureOutputChannels,  \* self.featureOutputChannels: <<start, stop>> pairs
    maxSigma,         \* self.maxSigma (tenths) as <<v>>; <<>> before it is assigned
    featureOps,       \* self.featureOps; <<>> before it is assigned
    outShape,         \* Output.meta.shape; <<>> before the first setup
    setups,           \* how often setupOutputs has run
    spc,              \* position of a setupOutputs that runs next to execute
    rebuilds,         \* how many such setupOutputs have begun
    setupErrors,      \* how often setupOutputs has failed an assert
    \* ---- OpPixelFeaturesPresmoothed.execute (Output slot)
    epc,              \* position of the compute call
    rroi,             \* the requested region [start, stop]
    presmoothed,      \* sourceArraysForSigmas: the arrays built, in order
    closures,         \* the tasks built for the pool
    taskState,        \* per task of the pool: its status and its offset
    readEpochs,       \* the setups whose assignments the call has read
    \* ---- OpPixelFeaturesPresmoothed.propagateDirty
    dirtyReq,         \* the roi of the notification as it arrived
    dirtyIn,          \* the notification's roi as the handler leaves it
    dirtyOut          \* the regions handed to Output.setDirty, in order

wvars == <<wpc, reqList, slicings, activeRequests, activeSlicings, req,
           primeLeft, completed, counter, progress, issued, written,
           result0, overtook>>

cfgvars == <<inMeta, featureIds, scales, matrix, newScales, featureOutputChannels,
             maxSigma, featureOps, outShape, setups, spc, rebuilds,
             setupErrors>>

evars == <<epc, rroi, presmoothed, closures, taskState, readEpochs>>

dvars == <<dirtyReq, dirtyIn, dirtyOut>>

svars == <<image, chunkShape, blocks, stpc, failed>>

vars == <<wvars, cfgvars, evars, dvars, svars>>

-----------------------------------------------------------------------------
\* Generic helpers

Min(a, b) == IF a <= b THEN a ELSE b
Max(a, b) == IF a >= b THEN a ELSE b

Range(s) == {s[i] : i \in 1..Len(s)}

\* list.pop(): the last element, and the list without it
Last(s) == s[Len(s)]
Front(s) == SubSeq(s, 1, Len(s) - 1)

-----------------------------------------------------------------------------
\* OpH5WriterBigDataset

\* Bound of the model: the most blocks a write is split into.
MaxBlocks == 12

\* "Only allow 10 outstanding requests at a time."
MaxOutstanding == 10

\* range( min(10, len(slicings)) ): how many requests the start-up loop creates
InitialRequestsUnthrottled(n) == n
InitialRequests(n) == Min(MaxOutstanding, n)

\* deque.popleft(): the index of the element the loop takes next
PopRightIndex(q) == Len(q)
PopLeftIndex(q) == 1

RemoveAt(q, i) == SubSeq(q, 1, i - 1) \o SubSeq(q, i + 1, Len(q))

\* self.progressSignal( 100*counter/numSlicings ): Python 2 integer division
\* of non-negative integers
ProgressValueRemaining(c, n) == (100 * (n - c)) \div n
ProgressValue(c, n) == (100 * c) \div n

\* if len(slicings) > 0: a block of the partition is still to be requested
MoreToIssueButLast(s) == Len(s) > 1
MoreToIssue(s) == Len(s) > 0

\* No writer setup is under way.
WriterSetupQuiet ==
    /\ image = <<>>
    /\ chunkShape = <<>>
    /\ blocks = <<>>
    /\ stpc = "off"

WriterInit ==
    /\ wpc = "start"
    /\ \E n \in 1..MaxBlocks : reqList = [i \in 1..n |-> i]
    /\ slicings = <<>>
    /\ activeRequests = <<>>
    /\ activeSlicings = <<>>
    /\ req = 0
    /\ primeLeft = 0
    /\ completed = {}
    /\ counter = 0
    /\ progress = <<>>
    /\ issued = <<>>
    /\ written = <<>>
    /\ result0 = FALSE
    /\ overtook = FALSE
    /\ failed = {}
    /\ WriterSetupQuiet

\* progressSignal(0); slicings = computeRequestSlicings(); the deques
WriterStart ==
    /\ wpc = "start"
    /\ progress' = Append(progress, 0)
    /\ slicings' = reqList
    /\ primeLeft' = InitialRequests(Len(reqList))
    /\ wpc' = "prime"
    /\ UNCHANGED <<reqList, activeRequests, activeSlicings, req, completed,
                   counter, issued, written, result0, overtook>>
    /\ UNCHANGED <<cfgvars, evars, dvars, svars>>

\* one iteration of "for i in range( min(10, len(slicings)) )"
WriterPrime ==
    /\ wpc = "prime"
    /\ primeLeft > 0
    /\ LET s == Last(slicings) IN
        /\ slicings' = Front(slicings)
        /\ activeSlicings' = Append(activeSlicings, s)
        /\ activeRequests' = Append(activeRequests, s)
        /\ issued' = Append(issued, s)
    /\ primeLeft' = primeLeft - 1
    /\ UNCHANGED <<wpc, reqList, req, completed, counter, progress, written,
                   result0, overtook>>
    /\ UNCHANGED <<cfgvars, evars, dvars, svars>>

\* the start-up loop ends; counter = 0
WriterPrimed ==
    /\ wpc = "prime"
    /\ primeLeft = 0
    /\ counter' = 0
    /\ wpc' = "loop"
    /\ UNCHANGED <<reqList, slicings, activeRequests, activeSlicings, req,
                   primeLeft, completed, progress, issued, written, result0,
                   overtook>>
    /\ UNCHANGED <<cfgvars, evars, dvars, svars>>

\* while len(activeRequests) > 0: req = popleft(); s = popleft()
WriterPop ==
    /\ wpc = "loop"
    /\ Len(activeRequests) > 0
    /\ LET i == PopLeftIndex(activeRequests) IN
        /\ req' = activeRequests[i]
        /\ activeRequests' = RemoveAt(activeRequests, i)
        /\ activeSlicings' = RemoveAt(activeSlicings, i)
    /\ wpc' = "wait"
    /\ UNCHANGED <<reqList, slicings, primeLeft, completed, counter, progress,
                   issued, written, result0, overtook>>
    /\ UNCHANGED <<cfgvars, evars, dvars, svars>>

\* data = req.wait(): blocks until the upstream source has finished req;
\* self.d[s] = data
WriterWaitWrite ==
    /\ wpc = "wait"
    /\ req \in completed
    /\ written' = Append(written, req)
    /\ req' = 0
    /\ wpc' = "issue"
    /\ UNCHANGED <<reqList, slicings, activeRequests, activeSlicings,
                   primeLeft, completed, counter, progress, issued, result0,
                   overtook>>
    /\ UNCHANGED <<cfgvars, evars, dvars, svars>>

\* if len(slicings) > 0: create a new active request
WriterIssue ==
    /\ wpc = "issue"
    /\ IF MoreToIssue(slicings)
       THEN LET s == Last(slicings) IN
            /\ slicings' = Front(slicings)
            /\ activeSlicings' = Append(activeSlicings, s)
            /\ activeRequests' = Append(activeRequests, s)
            /\ issued' = Append(issued, s)
       ELSE UNCHANGED <<slicings, activeSlicings, activeRequests, issued>>
    /\ wpc' = "report"
    /\ UNCHANGED <<reqList, req, primeLeft, completed, counter, progress,
                   written, result0, overtook>>
    /\ UNCHANGED <<cfgvars, evars, dvars, svars>>

\* self.progressSignal( 100*counter/numSlicings ); counter += 1
WriterReport ==
    /\ wpc = "report"
    /\ progress' = Append(progress, ProgressValue(counter, Len(reqList)))
    /\ counter' = counter + 1
    /\ wpc' = "loop"
    /\ UNCHANGED <<reqList, slicings, activeRequests, activeSlicings, req,
                   primeLeft, completed, issued, written, result0, overtook>>
    /\ UNCHANGED <<cfgvars, evars, dvars, svars>>

\* the loop ends: axistags attribute, result[0] = True, progressSignal(100)
WriterFinish ==
    /\ wpc = "loop"
    /\ Len(activeRequests) = 0
    /\ result0' = TRUE
    /\ progress' = Append(progress, 100)
    /\ wpc' = "done"
    /\ UNCHANGED <<reqList, slicings, activeRequests, activeSlicings, req,
                   primeLeft, completed, counter, issued, written, overtook>>
    /\ UNCHANGED <<cfgvars, evars, dvars, svars>>

\* The upstream source finishes a request that was created, in any order.
UpstreamComplete ==
    \E i \in 1..Len(issued) :
        /\ issued[i] \notin completed \cup failed
        /\ completed' = completed \cup {issued[i]}
        /\ overtook' = (overtook \/ \E k \in 1..(i - 1) : issued[k] \notin completed)
        /\ UNCHANGED <<wpc, reqList, slicings, activeRequests, activeSlicings,
                       req, primeLeft, counter, progress, issued, written,
                       result0>>
        /\ UNCHANGED <<cfgvars, evars, dvars, svars>>

WriterNext ==
    \/ WriterStart
    \/ WriterPrime
    \/ WriterPrimed
    \/ WriterPop
    \/ WriterWaitWrite
    \/ WriterIssue
    \/ WriterReport
    \/ WriterFinish
    \/ UpstreamComplete

-----------------------------------------------------------------------------
\* Descriptors, regions and the configuration inputs of the cascade

\* Bounds of the model: the extents of the input image and its channels.
ShapeX == 4
ShapeY == 3
MaxChannels == 2

\* Bounds of the model: how often the cascade is set up between calls, and
\* how often it is set up again while a compute call may be running.
MaxSetups == 1
MaxRebuilds == 1

SpatialKeys == {"x", "y", "z"}

\* axistags.index('c')
AxisIndex(tags, key) == CHOOSE k \in 1..Len(tags) : tags[k] = key

\* axistags.axisTypeCount(vigra.AxisType.Space)
SpatialAxes(tags) == {k \in 1..Len(tags) : tags[k] \in SpatialKeys}

\* The input images: an x-y image with 1..MaxChannels channels, channel last.
InputMetas ==
    {[axistags |-> <<"x", "y", "c">>, shape |-> <<ShapeX, ShapeY, n>>] :
        n \in 1..MaxChannels}

\* Values of the Scales slot, in tenths: 0.3 and 1.6
ScaleValues == {3, 16}

\* Values the FeatureIds slot is given here; the operator knows six ids.
DrawnFeatureIds == {"GaussianSmoothing", "StructureTensorEigenvalues"}

\* (rows, columns) of the selection matrices
MatrixShapes == {<<1, 1>>, <<1, 2>>, <<2, 1>>, <<2, 2>>}

Matrices(r, c) == [1..r -> [1..c -> {0, 1}]]

\* The ranges [s, e) of one axis: s < e <= extent, or s <= e where an empty
\* range is allowed
AxisRanges(extent, allowEmpty) ==
    {p \in (0..extent) \X (0..extent) :
        IF allowEmpty THEN p[1] <= p[2] ELSE p[1] < p[2]}

\* The regions of an array of this shape (three axes):
\* non-empty on the spatial axes, possibly empty on the channel axis c.
Regions(shape, c) ==
    {[start |-> <<p1[1], p2[1], p3[1]>>, stop |-> <<p1[2], p2[2], p3[2]>>] :
        p1 \in AxisRanges(shape[1], c = 1),
        p2 \in AxisRanges(shape[2], c = 2),
        p3 \in AxisRanges(shape[3], c = 3)}

\* The region of all of an array
WholeRegion(shape) ==
    [start |-> [k \in 1..Len(shape) |-> 0], stop |-> shape]

\* The regions the compute calls and the dirty notifications here are about:
\* the whole image with any channel range, or any window of the image with
\* all channels.
ChannelRegions(shape, c) ==
    {[start |-> [WholeRegion(shape).start EXCEPT ![c] = p[1]],
      stop |-> [shape EXCEPT ![c] = p[2]]] : p \in AxisRanges(shape[c], TRUE)}
WindowRegions(shape, c) ==
    {[start |-> [w.start EXCEPT ![c] = 0], stop |-> [w.stop EXCEPT ![c] = shape[c]]] :
        w \in Regions([shape EXCEPT ![c] = 0], c)}

CeilDiv(a, b) == (a + b - 1) \div b

\* roi.extendSlice, one component: margin = ceil(window * sigma), clipped to
\* the array (sigma and window in tenths)
HaloMargin(sigma10, window10) == CeilDiv(window10 * sigma10, 100)
extendSliceStart(s, sigma10, window10) ==
    Max(0, s - HaloMargin(sigma10, window10))
extendSliceStop(e, extent, sigma10, window10) ==
    Min(extent, e + HaloMargin(sigma10, window10))

\* popFlagsFromTheKey / extendSlice / re-insertion of the channel and time
\* entries: only the spatial components of a region are extended
ExtendSpatial(r, shape, tags, sigma10, window10) ==
    [start |-> [k \in 1..Len(tags) |->
                  IF k \in SpatialAxes(tags)
                  THEN extendSliceStart(r.start[k], sigma10, window10)
                  ELSE r.start[k]],
     stop |-> [k \in 1..Len(tags) |->
                  IF k \in SpatialAxes(tags)
                  THEN extendSliceStop(r.stop[k], shape[k], sigma10, window10)
                  ELSE r.stop[k]]]

-----------------------------------------------------------------------------
\* OpBaseVigraFilter and its subclasses

\* resultingChannels() of the filter classes
resultingChannels(id, tags) ==
    IF id \in {"StructureTensorEigenvalues", "HessianOfGaussianEigenvalues"}
    THEN Cardinality(SpatialAxes(tags))
    ELSE 1

\* OpBaseVigraFilter.setupOutputs: the channel extent of the filter's output
FilterOutChannels(id, meta) ==
    meta.shape[AxisIndex(meta.axistags, "c")]
        * resultingChannels(id, meta.axistags)

\* OpBaseVigraFilter.execute: windowSize = 4.0, or window_size (2) for the
\* classes with supportsWindow, which all six cascade filters are
FilterWindowSize(id) == 20

\* OpBaseVigraFilter.execute: largestSigma = sigma; newStart of
\* extendSlice(start, stop, subshape, largestSigma, window = windowSize);
\* writeNewStart = start - newStart
FilterWriteNewStart(op, r, shape, tags) ==
    LET halo == ExtendSpatial(r, shape, tags, op.sigma, FilterWindowSize(op.name))
    IN  [k \in 1..Len(tags) |-> r.start[k] - halo.start[k]]

-----------------------------------------------------------------------------
\* OpPixelFeaturesPresmoothed.setupOutputs

\* the n-th cell of "for i in range(dimRow): for j in range(dimCol)"
CellRow(n, dimCol) == ((n - 1) \div dimCol) + 1
CellCol(n, dimCol) == ((n - 1) % dimCol) + 1

\* self.newScales: destSigma = 1.0 caps every scale
newScalesOf(scl) == [j \in 1..Len(scl) |-> IF scl[j] > 10 THEN 10 ELSE scl[j]]

\* oparray: one filter per cell, its sigma/scale slot set to newScales[j]
oparrayOf(ids, scl, meta) ==
    [i \in 1..Len(ids) |-> [j \in 1..Len(scl) |->
        [name |-> ids[i],
         sigma |-> newScalesOf(scl)[j],
         channels |-> FilterOutChannels(ids[i], meta)]]]

\* self.featureOutputChannels.append( (channelCount, channelCount + featureChannels) )
TableEntryNoOffset(channelCount, featureChannels) ==
    <<channelCount, featureChannels>>
TableEntry(channelCount, featureChannels) ==
    <<channelCount, channelCount + featureChannels>>

RECURSIVE buildOffsetTable(_, _, _, _, _)
buildOffsetTable(mat, oparray, dimCol, n, channelCount) ==
    IF n > Len(mat) * dimCol THEN <<>>
    ELSE LET i == CellRow(n, dimCol)
             j == CellCol(n, dimCol)
         IN  IF mat[i][j] # 0
             THEN LET featureChannels == oparray[i][j].channels
                  IN  <<TableEntry(channelCount, featureChannels)>>
                      \o buildOffsetTable(mat, oparray, dimCol, n + 1,
                                          channelCount + featureChannels)
             ELSE buildOffsetTable(mat, oparray, dimCol, n + 1, channelCount)

\* (self.matrix==0).all()
AllZero(mat) == \A i \in 1..Len(mat) : \A j \in 1..Len(mat[i]) : mat[i][j] = 0

\* "determine maximum sigma": the largest scale of an enabled cell
determineMaxSigma(mat, scl) ==
    LET enabled == {scl[j] : j \in {jj \in 1..Len(scl) :
                        \E i \in 1..Len(mat) : mat[i][jj] # 0}}
    IN  IF enabled = {} THEN 0
        ELSE CHOOSE m \in enabled : \A v \in enabled : v <= m

\* OpMultiArrayStacker on the channel axis: the stacked image has the
\* channels of all connected images
RECURSIVE StackerChannels(_, _, _, _)
StackerChannels(mat, oparray, dimCol, n) ==
    IF n > Len(mat) * dimCol THEN 0
    ELSE (IF mat[CellRow(n, dimCol)][CellCol(n, dimCol)] # 0
          THEN oparray[CellRow(n, dimCol)][CellCol(n, dimCol)].channels
          ELSE 0)
         + StackerChannels(mat, oparray, dimCol, n + 1)

\* The values setupOutputs is run with, and passes its two asserts on.
Configurations ==
    UNION {[ids : [1..d[1] -> DrawnFeatureIds],
            scl : [1..d[2] -> ScaleValues],
            mat : Matrices(d[1], d[2])] : d \in MatrixShapes}

ExecQuiet ==
    /\ epc = "idle"
    /\ rroi = <<>>
    /\ presmoothed = <<>>
    /\ closures = <<>>
    /\ taskState = <<>>
    /\ readEpochs = {}

DirtyQuiet ==
    /\ dirtyReq = <<>>
    /\ dirtyIn = <<>>
    /\ dirtyOut = <<>>

\* The operator after __init__: no attribute of setupOutputs exists yet.
CascadeInit ==
    /\ inMeta \in InputMetas
    /\ featureIds = <<>>
    /\ scales = <<>>
    /\ matrix = <<>>
    /\ newScales = <<>>
    /\ featureOutputChannels = <<>>
    /\ maxSigma = <<>>
    /\ featureOps = <<>>
    /\ outShape = <<>>
    /\ setups = 0
    /\ spc = "idle"
    /\ rebuilds = 0
    /\ setupErrors = 0
    /\ ExecQuiet
    /\ DirtyQuiet

\* No compute call and no dirty notification is being handled.
Quiescent == epc = "idle" /\ dirtyReq = <<>>

\* setupOutputs with Scales, Matrix and FeatureIds of matching dimensions
SetupOutputs ==
    /\ Quiescent
    /\ spc = "idle"
    /\ setups < MaxSetups
    /\ \E cfg \in Configurations :
        LET c == AxisIndex(inMeta.axistags, "c")
            dimCol == Len(cfg.scl)
            oparray == oparrayOf(cfg.ids, cfg.scl, inMeta)
        IN  /\ featureIds' = cfg.ids
            /\ scales' = cfg.scl
            /\ matrix' = cfg.mat
            /\ newScales' = newScalesOf(cfg.scl)
            /\ featureOutputChannels' =
                   buildOffsetTable(cfg.mat, oparray, dimCol, 1, 0)
            /\ IF AllZero(cfg.mat)
               THEN /\ outShape' = [inMeta.shape EXCEPT ![c] = 0]
                    /\ UNCHANGED <<maxSigma, featureOps>>
               ELSE /\ outShape' = [inMeta.shape EXCEPT
                            ![c] = StackerChannels(cfg.mat, oparray, dimCol, 1)]
                    /\ maxSigma' = <<determineMaxSigma(cfg.mat, cfg.scl)>>
                    /\ featureOps' = oparray
    /\ setups' = setups + 1
    /\ UNCHANGED <<inMeta, spc, rebuilds, setupErrors, evars, dvars, wvars, svars>>

MaxSetupErrors == 1

\* Values of FeatureIds, Scales and Matrix that fail one of the two asserts:
\* the matrix has not one row per filter id, or not one column per scale.
MismatchedConfigurations ==
    UNION {[ids : [1..n[1] -> DrawnFeatureIds],
            scl : [1..n[2] -> ScaleValues],
            mat : Matrices(n[3][1], n[3][2])] :
           n \in {t \in {1, 2} \X {1, 2} \X MatrixShapes :
                      t[1] # t[3][1] \/ t[2] # t[3][2]}}

\* setupOutputs with a matrix that does not fit FeatureIds and Scales: the
\* stacker's Images are disconnected, self.scales and self.matrix are
\* assigned, then one of the asserts raises.
SetupRejected ==
    /\ Quiescent
    /\ spc = "idle"
    /\ setupErrors < MaxSetupErrors
    /\ \E cfg \in MismatchedConfigurations :
        /\ scales' = cfg.scl
        /\ matrix' = cfg.mat
    /\ setupErrors' = setupErrors + 1
    /\ UNCHANGED <<inMeta, featureIds, newScales, featureOutputChannels,
                   maxSigma, featureOps, outShape, setups, spc, rebuilds,
                   evars, dvars, wvars, svars>>
-----------------------------------------------------------------------------
\* OpPixelFeaturesPresmoothed.execute, Output slot

\* maxSigma = max(0.7, self.maxSigma)
\* vigOpSourceStart, vigOpSourceStop = extendSlice(start, stop, subshape, 0.7, window = 2)
vigOpSource(r, shape, tags) == ExtendSpatial(r, shape, tags, 7, 20)

\* newStart, newStop = extendSlice(vigOpSourceStart, vigOpSourceStop, subshape, maxSigma, window = 3.5)
SourceRegion(r, shape, tags, sigmaMax) ==
    ExtendSpatial(vigOpSource(r, shape, tags), shape, tags, Max(7, sigmaMax), 35)

\* The region of the input a presmoothed array covers: gaussianSmoothing is
\* given the source array, which starts at newStart, and
\* roi = (vigOpSourceStart - newStart, vigOpSourceStop - newStart).
PresmoothRegion(r, shape, tags, sigmaMax) ==
    LET src == SourceRegion(r, shape, tags, sigmaMax)
        vig == vigOpSource(r, shape, tags)
        droiStart == [k \in 1..Len(tags) |-> vig.start[k] - src.start[k]]
        droiStop == [k \in 1..Len(tags) |-> vig.stop[k] - src.start[k]]
    IN  [start |-> [k \in 1..Len(tags) |-> src.start[k] + droiStart[k]],
         stop |-> [k \in 1..Len(tags) |-> src.start[k] + droiStop[k]]]

\* hasScale: some row of column j is enabled
ColumnHasScaleAlways(mat, j) == TRUE
ColumnHasScale(mat, j) == \E i \in 1..Len(mat) : mat[i][j] # 0

\* tempSigma squared, in hundredths: scale^2 - destSigma^2 with destSigma = 1.0
\* above 1.0, scale^2 otherwise
tempSigmaSq(scale) == IF scale > 10 THEN scale * scale - 100 ELSE scale * scale

\* the loop that fills sourceArraysForSigmas: the arrays built, in order
RECURSIVE presmoothColumns(_, _, _, _)
presmoothColumns(mat, scl, j, region) ==
    IF j > Len(scl) THEN <<>>
    ELSE IF ColumnHasScale(mat, j)
         THEN <<[col |-> j, scale |-> scl[j], sigmaSq |-> tempSigmaSq(scl[j]),
                 start |-> region.start, stop |-> region.stop]>>
              \o presmoothColumns(mat, scl, j + 1, region)
         ELSE presmoothColumns(mat, scl, j + 1, region)

\* the test that selects a feature for the requested channel range [a, b)
TaskSelectedNoStop(cnt, slices, wr, a, b) ==
    cnt + slices >= a /\ a - cnt < slices
TaskSelected(cnt, slices, wr, a, b) ==
    cnt + slices >= a /\ a - cnt < slices /\ a + wr < b

\* the loop that builds the closures: cnt counts the channels of the enabled
\* features passed, written the channels of the result handed out
RECURSIVE buildClosures(_, _, _, _, _, _, _, _)
buildClosures(mat, ops, dimCol, n, cnt, wr, a, b) ==
    IF n > Len(mat) * dimCol THEN <<>>
    ELSE LET i == CellRow(n, dimCol)
             j == CellCol(n, dimCol)
         IN  IF mat[i][j] = 0
             THEN buildClosures(mat, ops, dimCol, n + 1, cnt, wr, a, b)
             ELSE LET slices == ops[i][j].channels
                      begin == IF cnt < a THEN a - cnt ELSE 0
                      end == IF cnt + slices > b
                             THEN slices - (cnt + slices - b)
                             ELSE slices
                  IN  IF TaskSelected(cnt, slices, wr, a, b)
                      THEN <<[row |-> i, col |-> j, begin |-> begin,
                              end |-> end, destStart |-> wr,
                              destStop |-> wr + end - begin]>>
                           \o buildClosures(mat, ops, dimCol, n + 1,
                                  cnt + slices, wr + end - begin, a, b)
                      ELSE buildClosures(mat, ops, dimCol, n + 1,
                                  cnt + slices, wr, a, b)

\* The setup each group of attributes was last assigned by: a setupOutputs
\* that has begun has assigned self.scales and self.matrix, and assigns
\* self.maxSigma and self.featureOps only at its end.
MatrixEpoch == rebuilds
OpsEpoch == IF spc = "idle" THEN rebuilds ELSE rebuilds - 1

\* execute up to the closures: the halo, the read of the source and the
\* presmoothed arrays. self.maxSigma does not exist before a setup with an
\* enabled cell: reading it raises.
ExecutePresmoothOf(r) ==
    /\ Quiescent
    /\ outShape # <<>>
    /\ rroi' = r
    /\ IF maxSigma = <<>>
       THEN /\ epc' = "raised"
            /\ presmoothed' = <<>>
            /\ readEpochs' = {}
       ELSE /\ epc' = "smoothed"
            /\ presmoothed' = presmoothColumns(matrix, scales, 1,
                   PresmoothRegion(r, outShape, inMeta.axistags, maxSigma[1]))
            /\ readEpochs' = {MatrixEpoch, OpsEpoch}
    /\ closures' = <<>>
    /\ taskState' = <<>>
    /\ UNCHANGED <<cfgvars, dvars, wvars, svars>>

\* A compute call for a channel range of the whole image
ExecutePresmooth ==
    /\ Quiescent
    /\ outShape # <<>>
    /\ \E r \in ChannelRegions(outShape, AxisIndex(inMeta.axistags, "c")) :
           ExecutePresmoothOf(r)

\* A compute call for all channels of a window of the image
ExecuteWindow ==
    /\ Quiescent
    /\ outShape # <<>>
    /\ \E r \in WindowRegions(outShape, AxisIndex(inMeta.axistags, "c")) :
           ExecutePresmoothOf(r)

\* execute from "closures = []" to the pool: one closure per selected feature
ExecuteBuildTasks ==
    /\ epc = "smoothed"
    /\ LET c == AxisIndex(inMeta.axistags, "c")
       IN  closures' = buildClosures(matrix, featureOps, Len(scales), 1, 0, 0,
                                     rroi.start[c], rroi.stop[c])
    /\ readEpochs' = readEpochs \cup {MatrixEpoch, OpsEpoch}
    /\ epc' = "prepared"
    /\ UNCHANGED <<rroi, presmoothed, taskState, cfgvars, dvars, wvars, svars>>

\* pool = Pool(); for c in closures: r = pool.request(c)
ExecuteDispatch ==
    /\ epc = "prepared"
    /\ taskState' = [k \in 1..Len(closures) |->
                        [status |-> "pending", writeNewStart |-> <<>>,
                         passes |-> <<>>]]
    /\ epc' = "waiting"
    /\ UNCHANGED <<rroi, presmoothed, closures, readEpochs, cfgvars, dvars, wvars, svars>>

\* The region one task is asked for: the request's region with the channel
\* range of the closure, in the feature's own channel numbering.
TaskRegion(k) ==
    LET c == AxisIndex(inMeta.axistags, "c")
    IN  [start |-> [rroi.start EXCEPT ![c] = closures[k].begin],
         stop |-> [rroi.stop EXCEPT ![c] = closures[k].end]]

\* ---- the channel loop of OpBaseVigraFilter.execute, for the requested
\* output channels oldstart..oldstop-1 and channelsPerChannel output channels
\* per input channel

\* sourceBegin: the first channel of the filter's result for input channel i
\* that was asked for
sourceBeginWhole(i, oldstart, channelsPerChannel) == 0
sourceBeginOf(i, oldstart, channelsPerChannel) ==
    IF oldstart > i * channelsPerChannel
    THEN oldstart - i * channelsPerChannel
    ELSE 0

\* sourceEnd: one past the last such channel
sourceEndOf(i, oldstop, channelsPerChannel) ==
    IF oldstop < (i + 1) * channelsPerChannel
    THEN channelsPerChannel - ((i + 1) * channelsPerChannel - oldstop)
    ELSE channelsPerChannel

\* one pass of the loop: the channels sourceBegin..sourceEnd-1 of the
\* filter's result for input channel i go to the channels tkey of result
channelPass(i, i2, oldstart, oldstop, channelsPerChannel) ==
    LET sourceBegin == sourceBeginOf(i, oldstart, channelsPerChannel)
        sourceEnd == sourceEndOf(i, oldstop, channelsPerChannel)
        destBegin == i2
        destEnd == i2 + sourceEnd - sourceBegin
    IN  [input |-> i,
         sourceBegin |-> sourceBegin,
         sourceEnd |-> sourceEnd,
         destBegin |-> destBegin,
         destEnd |-> destEnd,
         tkey |-> IF channelsPerChannel > 1
                  THEN <<destBegin, destEnd>>
                  ELSE <<i2, i2 + 1>>]

\* for i in range(floor(oldstart/channelsPerChannel), ceil(oldstop/channelsPerChannel)),
\* with i2 += destEnd - destBegin after every pass
RECURSIVE channelLoop(_, _, _, _, _, _)
channelLoop(i, last, i2, oldstart, oldstop, channelsPerChannel) ==
    IF i >= last THEN <<>>
    ELSE LET p == channelPass(i, i2, oldstart, oldstop, channelsPerChannel)
         IN  <<p>> \o channelLoop(i + 1, last, i2 + (p.destEnd - p.destBegin),
                                  oldstart, oldstop, channelsPerChannel)

FilterChannelPasses(oldstart, oldstop, channelsPerChannel) ==
    channelLoop(oldstart \div channelsPerChannel,
                CeilDiv(oldstop, channelsPerChannel),
                0, oldstart, oldstop, channelsPerChannel)

\* The passes of the channel loop of task k.
TaskPasses(k) ==
    FilterChannelPasses(closures[k].begin, closures[k].end,
        resultingChannels(featureOps[closures[k].row][closures[k].col].name,
                          inMeta.axistags))

\* A worker of the pool runs a task: OpBaseVigraFilter.execute computes the
\* offset of the requested window in the array it was handed, filters that
\* window and writes its channels of the result.
TaskRun ==
    \E k \in 1..Len(taskState) :
        /\ epc = "waiting"
        /\ taskState[k].status = "pending"
        /\ taskState' = [taskState EXCEPT ![k] =
               [status |-> "done",
                writeNewStart |-> FilterWriteNewStart(
                    featureOps[closures[k].row][closures[k].col],
                    TaskRegion(k), inMeta.shape, inMeta.axistags),
                passes |-> TaskPasses(k)]]
        /\ UNCHANGED <<epc, rroi, presmoothed, closures, readEpochs,
                       cfgvars, dvars, wvars, svars>>

\* self.vigraFilter(...) raises: the handler prints and calls sys.exit(1),
\* and as the module never imports sys that call is a NameError; either way
\* an exception leaves OpBaseVigraFilter.execute and the task
FilterFailureSwallowed == "done"
FilterFailureStatus == "failed"

\* A worker of the pool runs a task and the filter raises in one of the
\* passes of the channel loop, the passes before it having written.
TaskFail ==
    \E k \in 1..Len(taskState) :
        /\ epc = "waiting"
        /\ taskState[k].status = "pending"
        /\ \E f \in 1..Len(TaskPasses(k)) :
              taskState' = [taskState EXCEPT ![k] =
                 [status |-> FilterFailureStatus,
                  writeNewStart |-> FilterWriteNewStart(
                      featureOps[closures[k].row][closures[k].col],
                      TaskRegion(k), inMeta.shape, inMeta.axistags),
                  passes |-> SubSeq(TaskPasses(k), 1, f - 1)]]
        /\ UNCHANGED <<epc, rroi, presmoothed, closures, readEpochs,
                       cfgvars, dvars, wvars, svars>>

\* Pool.wait() returns once every request of the pool has finished.
PoolWaitReturns(tasks) == \A k \in 1..Len(tasks) : tasks[k].status = "done"

\* Pool.wait() raises once every request of the pool is over and one failed.
PoolWaitRaises(tasks) ==
    /\ \A k \in 1..Len(tasks) : tasks[k].status \in {"done", "failed"}
    /\ \E k \in 1..Len(tasks) : tasks[k].status = "failed"

\* pool.wait(); pool.clean(); the arrays are released; execute returns
ExecuteMayReturnNoWait == TRUE
ExecuteMayReturn == PoolWaitReturns(taskState)

ExecuteReturn ==
    /\ epc = "waiting"
    /\ ExecuteMayReturn
    /\ epc' = "returned"
    /\ UNCHANGED <<rroi, presmoothed, closures, taskState, readEpochs,
                   cfgvars, dvars, wvars, svars>>

\* pool.wait() raises in execute, which has no handler around it
ExecuteRaise ==
    /\ epc = "waiting"
    /\ PoolWaitRaises(taskState)
    /\ epc' = "raised"
    /\ UNCHANGED <<rroi, presmoothed, closures, taskState, readEpochs,
                   cfgvars, dvars, wvars, svars>>

\* The caller has the result (or the exception); the call is over.
ExecuteEnd ==
    /\ epc \in {"returned", "raised"}
    /\ epc' = "idle"
    /\ rroi' = <<>>
    /\ presmoothed' = <<>>
    /\ closures' = <<>>
    /\ taskState' = <<>>
    /\ readEpochs' = {}
    /\ UNCHANGED <<cfgvars, dvars, wvars, svars>>

-----------------------------------------------------------------------------
\* OpPixelFeaturesPresmoothed.propagateDirty

\* roiToSlice: one slice (start, stop) per axis
roiToSlice(start, stop) == [k \in 1..Len(start) |-> <<start[k], stop[k]>>]

\* slice(None)
SliceNone == <<>>

\* sliceToRoi: a slice without bounds addresses the whole axis
sliceToRoi(key, shape) ==
    [start |-> [k \in 1..Len(key) |-> IF key[k] = SliceNone THEN 0 ELSE key[k][1]],
     stop |-> [k \in 1..Len(key) |->
                  IF key[k] = SliceNone THEN shape[k] ELSE key[k][2]]]

\* all input channels dirty: dirtyKey[channelAxis] = slice(None)
DirtyKeyKeepChannels(roi, c) == roiToSlice(roi.start, roi.stop)
DirtyKeyAllChannels(roi, c) ==
    [roiToSlice(roi.start, roi.stop) EXCEPT ![c] = SliceNone]

\* dirtyRoi = copy.copy(roi) is a shallow copy: dirtyRoi.start and
\* dirtyRoi.stop are the vectors of roi, so what is stored in them is stored
\* in roi as well
RoiAfterWrite(roi, dirtyRoi) == dirtyRoi

\* "for featureIndex in range(numFeatures)": the regions handed to setDirty
\* and the notification's roi when the loop ends
RECURSIVE dirtyLoop(_, _, _, _, _)
dirtyLoop(featureIndex, numFeatures, numChannels, roi, c) ==
    IF featureIndex >= numFeatures THEN [emitted |-> <<>>, roi |-> roi]
    ELSE LET startChannel == numChannels * featureIndex + roi.start[c]
             stopChannel == startChannel + roi.stop[c]
             dirtyRoi == [start |-> [roi.start EXCEPT ![c] = startChannel],
                          stop |-> [roi.stop EXCEPT ![c] = stopChannel]]
             rest == dirtyLoop(featureIndex + 1, numFeatures, numChannels,
                               RoiAfterWrite(roi, dirtyRoi), c)
         IN  [emitted |-> <<dirtyRoi>> \o rest.emitted, roi |-> rest.roi]

\* A dirty notification of the Input slot with a non-empty channel range.
PropagateDirtyInput ==
    /\ Quiescent
    /\ outShape # <<>>
    /\ \E r \in WindowRegions(inMeta.shape, AxisIndex(inMeta.axistags, "c"))
                 \cup ChannelRegions(inMeta.shape, AxisIndex(inMeta.axistags, "c")) :
        LET channelAxis == AxisIndex(inMeta.axistags, "c")
            numChannels == inMeta.shape[channelAxis]
            dirtyChannels == r.stop[channelAxis] - r.start[channelAxis]
        IN  /\ dirtyChannels > 0
            /\ dirtyReq' = r
            /\ IF dirtyChannels = numChannels
               THEN /\ dirtyOut' =
                        <<sliceToRoi(DirtyKeyAllChannels(r, channelAxis), outShape)>>
                    /\ dirtyIn' = r
               ELSE LET numFeatures == outShape[channelAxis] \div numChannels
                        run == dirtyLoop(0, numFeatures, numChannels, r, channelAxis)
                    IN  /\ dirtyOut' = run.emitted
                        /\ dirtyIn' = run.roi
    /\ UNCHANGED <<cfgvars, evars, wvars, svars>>

\* The notification has been handled.
DirtyEnd ==
    /\ dirtyReq # <<>>
    /\ dirtyReq' = <<>>
    /\ dirtyIn' = <<>>
    /\ dirtyOut' = <<>>
    /\ UNCHANGED <<cfgvars, evars, wvars, svars>>

-----------------------------------------------------------------------------
\* setupOutputs in a thread of its own, next to a compute call: the Matrix
\* slot was given a new value. Nothing in the operator makes execute wait
\* for setupOutputs or setupOutputs for execute, so the two interleave.

\* self.scales = Scales.value; self.matrix = Matrix.value
RebuildAssign ==
    /\ spc = "idle"
    /\ outShape # <<>>
    /\ rebuilds < MaxRebuilds
    /\ \E m \in Matrices(Len(featureIds), Len(scales)) :
        /\ m # matrix
        /\ matrix' = m
    /\ rebuilds' = rebuilds + 1
    /\ spc' = "assigned"
    /\ UNCHANGED <<inMeta, featureIds, scales, newScales, featureOutputChannels,
                   maxSigma, featureOps, outShape, setups, setupErrors,
                   evars, dvars, wvars, svars>>

\* the rest of setupOutputs, on the attributes assigned: self.newScales,
\* the filters, self.featureOutputChannels, self.maxSigma, self.featureOps
\* and the meta data of Output
RebuildFinish ==
    /\ spc = "assigned"
    /\ LET c == AxisIndex(inMeta.axistags, "c")
           dimCol == Len(scales)
           oparray == oparrayOf(featureIds, scales, inMeta)
       IN  /\ newScales' = newScalesOf(scales)
           /\ featureOutputChannels' =
                  buildOffsetTable(matrix, oparray, dimCol, 1, 0)
           /\ IF AllZero(matrix)
              THEN /\ outShape' = [inMeta.shape EXCEPT ![c] = 0]
                   /\ UNCHANGED <<maxSigma, featureOps>>
              ELSE /\ outShape' = [inMeta.shape EXCEPT
                           ![c] = StackerChannels(matrix, oparray, dimCol, 1)]
                   /\ maxSigma' = <<determineMaxSigma(matrix, scales)>>
                   /\ featureOps' = oparray
    /\ spc' = "idle"
    /\ UNCHANGED <<inMeta, featureIds, scales, matrix, setups, rebuilds,
                   setupErrors, evars, dvars, wvars, svars>>

\* A compute call for all of the output, begun at any moment.
ExecuteWholeOutput ==
    /\ outShape # <<>>
    /\ ExecutePresmoothOf(WholeRegion(outShape))

-----------------------------------------------------------------------------
\* Specifications

WriterQuiet ==
    /\ wpc = "off"
    /\ reqList = <<>>
    /\ slicings = <<>>
    /\ activeRequests = <<>>
    /\ activeSlicings = <<>>
    /\ req = 0
    /\ primeLeft = 0
    /\ completed = {}
    /\ counter = 0
    /\ progress = <<>>
    /\ issued = <<>>
    /\ written = <<>>
    /\ result0 = FALSE
    /\ overtook = FALSE
    /\ failed = {}

CascadeQuiet ==
    /\ inMeta = <<>>
    /\ featureIds = <<>>
    /\ scales = <<>>
    /\ matrix = <<>>
    /\ newScales = <<>>
    /\ featureOutputChannels = <<>>
    /\ maxSigma = <<>>
    /\ featureOps = <<>>
    /\ outShape = <<>>
    /\ setups = 0
    /\ spc = "idle"
    /\ rebuilds = 0
    /\ setupErrors = 0
    /\ ExecQuiet
    /\ DirtyQuiet

\* The writer before a write, no cascade; the cascade after __init__, no
\* writer.
WriterOnly == WriterInit /\ CascadeQuiet
CascadeOnly == CascadeInit /\ WriterQuiet /\ WriterSetupQuiet

\* One write of the chunked writer, the upstream source finishing requests
\* in any order.
SpecWriter == WriterOnly /\ [][WriterNext]_vars

\* The cascade being set up.
SetupNext == SetupOutputs
SpecSetup == CascadeOnly /\ [][SetupNext]_vars

\* A setup and compute calls of the cascade, one after the other; the tasks
\* of a call run in the pool in any order.
ExecNext ==
    \/ SetupOutputs
    \/ ExecutePresmooth
    \/ ExecuteBuildTasks
    \/ ExecuteDispatch
    \/ TaskRun
    \/ ExecuteReturn
    \/ ExecuteEnd
SpecExec == CascadeOnly /\ [][ExecNext]_vars

\* Compute calls for all of the output, with filters that may raise inside
\* a task.
ExecFailNext ==
    \/ SetupOutputs
    \/ ExecuteWholeOutput
    \/ ExecuteBuildTasks
    \/ ExecuteDispatch
    \/ TaskRun
    \/ TaskFail
    \/ ExecuteReturn
    \/ ExecuteRaise
    \/ ExecuteEnd
SpecExecFail == CascadeOnly /\ [][ExecFailNext]_vars

\* Setups of the cascade, some of them with a matrix that does not fit.
RejectNext ==
    \/ SetupOutputs
    \/ SetupRejected
SpecReject == CascadeOnly /\ [][RejectNext]_vars

\* The same with compute calls for windows of the image.
HaloNext ==
    \/ SetupOutputs
    \/ ExecuteWindow
    \/ ExecuteBuildTasks
    \/ ExecuteDispatch
    \/ TaskRun
    \/ ExecuteReturn
    \/ ExecuteEnd
SpecHalo == CascadeOnly /\ [][HaloNext]_vars

\* A setup and dirty notifications of the cascade, one after the other.
DirtyNext ==
    \/ SetupOutputs
    \/ PropagateDirtyInput
    \/ DirtyEnd
SpecDirty == CascadeOnly /\ [][DirtyNext]_vars

\* A compute call in one thread and a setupOutputs in another.
RaceNext ==
    \/ SetupOutputs
    \/ RebuildAssign
    \/ RebuildFinish
    \/ ExecuteWholeOutput
    \/ ExecuteBuildTasks
SpecRace == CascadeOnly /\ [][RaceNext]_vars

-----------------------------------------------------------------------------
\* OpH5WriterBigDataset.setupOutputs and computeRequestSlicings

\* "Aim for a cube that's roughly 300k in size"
ChunkByteBudget == 300000

MaxExtent == 150

\* the Image descriptors drawn: axis order, shape and element size in bytes
WriterAxisOrders == {<<"x", "y", "c">>, <<"t", "y", "x", "c">>, <<"t", "c">>}
SpatialExtents == {1, 50, 100, MaxExtent}
TimeExtents == {1, 2}
ChannelCounts == {1, 3, 75, 80000}
ElementSizes == {4, 8}

AxisExtents(key) ==
    CASE key \in SpatialKeys -> SpatialExtents
      [] key = "t" -> TimeExtents
      [] key = "c" -> ChannelCounts

ImageDescriptors ==
    UNION {[axistags : {tags},
            shape : {s \in [1..Len(tags) -> SpatialExtents \cup TimeExtents \cup ChannelCounts] :
                        \A i \in 1..Len(tags) : s[i] \in AxisExtents(tags[i])},
            dtypeBytes : ElementSizes] : tags \in WriterAxisOrders}

\* math.pow(q, 1/3.0) in doubles: for a perfect cube k^3 with k >= 4 the
\* power comes out just below k, so that int() gives k - 1
PowFallsShort(q) == \E k \in 4..66 : q = k ^ 3

\* cubeDim = int(math.pow(300000 / (numChannels * dtypeBytes), 1/3.0)),
\* the division being Python 2's integer division
cubeDimOf(numChannels, dtypeBytes) ==
    LET q == ChunkByteBudget \div (numChannels * dtypeBytes)
        r == CHOOSE k \in 0..67 : k ^ 3 <= q /\ q < (k + 1) ^ 3
    IN  IF PowFallsShort(q) THEN r - 1 ELSE r

\* chunkDims[axisKey]
chunkDims(key, cubeDim, numChannels) ==
    CASE key = "t" -> 1
      [] key \in SpatialKeys -> cubeDim
      [] key = "c" -> numChannels

\* chunkShape += ( min( chunkDims[axisKey], dataShape[i] ), )
chunkShapeOf(img) ==
    LET numChannels == img.shape[AxisIndex(img.axistags, "c")]
        cubeDim == cubeDimOf(numChannels, img.dtypeBytes)
    IN  [i \in 1..Len(img.shape) |->
            Min(chunkDims(img.axistags[i], cubeDim, numChannels), img.shape[i])]

\* assert chunkDims['x'] * chunkDims['y'] * chunkDims['z'] * numChannels * dtypeBytes <= 300000
ChunkAssertHolds(img) ==
    LET numChannels == img.shape[AxisIndex(img.axistags, "c")]
        cubeDim == cubeDimOf(numChannels, img.dtypeBytes)
    IN  cubeDim * cubeDim * cubeDim * numChannels * img.dtypeBytes <= ChunkByteBudget

\* g.create_dataset(..., chunks=self.chunkShape, ...): the store takes chunk
\* shapes of positive extents only
StoreTakesChunks(chunk) == \A i \in 1..Len(chunk) : chunk[i] > 0

\* multipliers = { 'x':2, 'y':2, 'z':2, 't':1, 'c':10 }
multipliers(key) ==
    CASE key \in SpatialKeys -> 2
      [] key = "t" -> 1
      [] key = "c" -> 10

\* shift = numpy.minimum(chunkShape * multiplier, shape)
shiftOf(shape, chunk, tags) ==
    [i \in 1..Len(shape) |-> Min(chunk[i] * multipliers(tags[i]), shape[i])]

\* range(0, stop, step)
RangeStep(stop, step) == [k \in 1..CeilDiv(stop, step) |-> (k - 1) * step]

\* itertools.product(*lists): the last list runs fastest
RECURSIVE product(_)
product(lists) ==
    IF lists = <<>> THEN << <<>> >>
    ELSE LET h == Head(lists)
             rest == product(Tail(lists))
         IN  [i \in 1..(Len(h) * Len(rest)) |->
                <<h[((i - 1) \div Len(rest)) + 1]>> \o rest[((i - 1) % Len(rest)) + 1]]

\* stop = numpy.minimum(start + shift, shape)
BlockStopUnclipped(start, shift, extent) == start + shift
BlockStop(start, shift, extent) == Min(start + shift, extent)

computeRequestSlicings(shape, chunk, tags) ==
    LET shift == shiftOf(shape, chunk, tags)
        starts == product([i \in 1..Len(shape) |-> RangeStep(shape[i], shift[i])])
    IN  [k \in 1..Len(starts) |->
            [start |-> starts[k],
             stop |-> [i \in 1..Len(shape) |->
                          BlockStop(starts[k][i], shift[i], shape[i])]]]

\* A writer is connected to an Image of any of the descriptors.
WriterSetupInit ==
    /\ image \in ImageDescriptors
    /\ chunkShape = <<>>
    /\ blocks = <<>>
    /\ stpc = "start"

\* setupOutputs: self.chunkShape is assigned before the dataset is created
WriterSetupOutputs ==
    /\ stpc = "start"
    /\ IF ~ChunkAssertHolds(image)
       THEN /\ stpc' = "rejected"
            /\ UNCHANGED chunkShape
       ELSE /\ chunkShape' = chunkShapeOf(image)
            /\ stpc' = IF StoreTakesChunks(chunkShapeOf(image)) THEN "ready" ELSE "rejected"
    /\ UNCHANGED <<image, blocks, failed>>
    /\ UNCHANGED <<wvars, cfgvars, evars, dvars>>

\* reqList = self.computeRequestSlicings(), the first step of execute
ComputeRequestSlicings ==
    /\ stpc = "ready"
    /\ blocks' = computeRequestSlicings(image.shape, chunkShape, image.axistags)
    /\ stpc' = "sliced"
    /\ UNCHANGED <<image, chunkShape, failed>>
    /\ UNCHANGED <<wvars, cfgvars, evars, dvars>>

\* The writer's setup and its request partition, for every descriptor drawn.
SlicingsOnly == WriterSetupInit /\ WriterQuiet /\ CascadeQuiet

SlicingsNext ==
    \/ WriterSetupOutputs
    \/ ComputeRequestSlicings

SpecSlicings == SlicingsOnly /\ [][SlicingsNext]_vars

-----------------------------------------------------------------------------
\* A write whose upstream source fails requests

MaxFailures == 1

\* The upstream source fails a request that was created and is not finished.
UpstreamFail ==
    /\ wpc \notin {"done", "raised"}
    /\ Cardinality(failed) < MaxFailures
    /\ \E i \in 1..Len(issued) :
        /\ issued[i] \notin completed \cup failed
        /\ failed' = failed \cup {issued[i]}
    /\ UNCHANGED <<image, chunkShape, blocks, stpc>>
    /\ UNCHANGED <<wvars, cfgvars, evars, dvars>>

\* req.wait() on a request that failed raises the failure in the waiter
WaitRaises(r) == r \in failed

\* data = req.wait() stands in no try block: the failure leaves execute
WaitFailureSkipsBlock == "issue"
WaitFailureLeaves == "raised"

\* data = req.wait(), the request having failed
WriterWaitRaise ==
    /\ wpc = "wait"
    /\ WaitRaises(req)
    /\ wpc' = WaitFailureLeaves
    /\ UNCHANGED <<reqList, slicings, activeRequests, activeSlicings, req,
                   primeLeft, completed, counter, progress, issued, written,
                   result0, overtook>>
    /\ UNCHANGED <<cfgvars, evars, dvars, svars>>

FailNext ==
    \/ WriterNext
    \/ UpstreamFail
    \/ WriterWaitRaise

SpecWriterFail == WriterOnly /\ [][FailNext]_vars
-----------------------------------------------------------------------------
\* Claims: the chunked writer

\* Requests created whose result the writer has not stored yet.
Outstanding == Range(issued) \ Range(written)

\* C1: at every point of a write, at most 10 read requests have been issued
\* against the upstream source without their result having been consumed.
C1_BoundedPipeline == Cardinality(Outstanding) <= 10

\* more blocks than the throttle, and the pipeline is full
C1_Witness ==
    /\ Len(reqList) > 10
    /\ Cardinality(Outstanding) = 10
    /\ Len(written) > 0

\* C2: blocks are stored in the order their requests were issued, whatever
\* order the upstream source finishes them in.
C2_IssuanceOrder ==
    /\ Len(written) <= Len(issued)
    /\ \A i \in 1..Len(written) : written[i] = issued[i]

\* a later request finished before an older one, and the write went through
C2_Witness ==
    /\ overtook
    /\ wpc = "done"
    /\ Len(written) >= 2

-----------------------------------------------------------------------------
\* Claims: the compute call of the cascade

\* channelAxis = Input.meta.axistags.index('c')
ChannelAxis == AxisIndex(inMeta.axistags, "c")

\* The enabled cells (filter row, scale column) of the selection matrix, and
\* their place in row-major order
EnabledPairs ==
    {p \in (1..Len(matrix)) \X (1..Len(scales)) : matrix[p[1]][p[2]] # 0}
RowMajorBefore(p, q) == p[1] < q[1] \/ (p[1] = q[1] /\ p[2] < q[2])
RankOf(p) == Cardinality({q \in EnabledPairs : RowMajorBefore(q, p)}) + 1

\* The Channel Offset Table entry of an enabled cell
BlockOf(p) == featureOutputChannels[RankOf(p)]

\* The compute call has built its presmoothed arrays / its closures.
PresmoothBuilt == epc \in {"smoothed", "prepared", "waiting", "returned"}
ClosuresBuilt == epc \in {"prepared", "waiting", "returned"}

\* C3: the stacked-output compute call returns only after every task it
\* dispatched to the pool has finished: in no state has the call returned
\* while a dispatched task is still pending or running.
C3_ReturnsAfterAllTasks ==
    epc = "returned" =>
        /\ Len(taskState) = Len(closures)
        /\ \A k \in 1..Len(taskState) : taskState[k].status = "done"

\* a call with several tasks has returned
C3_Witness ==
    /\ epc = "returned"
    /\ Len(taskState) >= 2

\* C4: for the requested channel range [a, b) the call builds exactly one
\* task per enabled cell whose table range intersects [a, b); each task's
\* destination range is its block cut to [a, b) and shifted by -a, the
\* destination ranges are pairwise disjoint and their union is [0, b-a).
C4_OneTaskPerIntersectingCell ==
    ClosuresBuilt =>
        LET a == rroi.start[ChannelAxis]
            b == rroi.stop[ChannelAxis]
            hit == {p \in EnabledPairs :
                       Max(BlockOf(p)[1], a) < Min(BlockOf(p)[2], b)}
            dest(n) == closures[n].destStart .. (closures[n].destStop - 1)
        IN  /\ Len(closures) = Cardinality(hit)
            /\ \A p \in hit : \E n \in 1..Len(closures) :
                   /\ closures[n].row = p[1]
                   /\ closures[n].col = p[2]
                   /\ closures[n].destStart = Max(BlockOf(p)[1], a) - a
                   /\ closures[n].destStop = Min(BlockOf(p)[2], b) - a
            /\ \A m, n \in 1..Len(closures) :
                   m # n => dest(m) \cap dest(n) = {}
            /\ UNION {dest(n) : n \in 1..Len(closures)} = 0 .. (b - a - 1)

\* a channel range that starts inside one block, covers several blocks and
\* leaves an enabled cell out
C4_Witness ==
    /\ ClosuresBuilt
    /\ Len(closures) >= 2
    /\ Len(closures) < Len(featureOutputChannels)
    /\ closures[1].begin > 0

\* C5: a setupOutputs and a compute call in different threads are serialized:
\* no compute call is under way while a setupOutputs is, and one call never
\* reads attributes assigned by two different setups.
C5_SetupAndComputeSerialized ==
    /\ ~(spc # "idle" /\ epc \in {"smoothed", "prepared"})
    /\ Cardinality(readEpochs) <= 1

StrictlyInside(r) ==
    \A k \in SpatialAxes(inMeta.axistags) :
        r.start[k] > 0 /\ r.stop[k] < inMeta.shape[k]

\* C7: for a request strictly inside the image, the offset a task uses on
\* every spatial axis (requested start minus the start of the halo the filter
\* computes for itself) is the requested start minus the start of the region
\* the task's presmoothed array covers.
C7_TaskWindowIsRequestedRegion ==
    \A k \in 1..Len(taskState) :
        (taskState[k].status = "done" /\ StrictlyInside(rroi)) =>
            \A n \in 1..Len(presmoothed) :
                presmoothed[n].col = closures[k].col =>
                    \A ax \in SpatialAxes(inMeta.axistags) :
                        taskState[k].writeNewStart[ax]
                            = rroi.start[ax] - presmoothed[n].start[ax]

-----------------------------------------------------------------------------
\* Claims: setup and dirty propagation of the cascade

\* C8: after a setup the Channel Offset Table has one entry per enabled cell
\* in row-major order, as wide as the cell's filter output has channels; the
\* first entry starts at 0, each entry starts where the one before stops,
\* and the last stops at the published channel count.
C8_OffsetTablePartition ==
    outShape # <<>> =>
        LET T == featureOutputChannels
            total == outShape[ChannelAxis]
        IN  /\ Len(T) = Cardinality(EnabledPairs)
            /\ \A p \in EnabledPairs :
                   BlockOf(p)[2] - BlockOf(p)[1]
                       = FilterOutChannels(featureIds[p[1]], inMeta)
            /\ \A k \in 1..Len(T) : T[k][1] < T[k][2]
            /\ \A k \in 1..(Len(T) - 1) : T[k + 1][1] = T[k][2]
            /\ Len(T) > 0 => (T[1][1] = 0 /\ T[Len(T)][2] = total)
            /\ Len(T) = 0 => total = 0

\* a matrix with a disabled cell and enabled cells of different widths
C8_Witness ==
    /\ outShape # <<>>
    /\ Len(featureOutputChannels) = 3
    /\ \E k \in 1..2 :
           featureOutputChannels[k][2] - featureOutputChannels[k][1]
               # featureOutputChannels[k + 1][2] - featureOutputChannels[k + 1][1]

\* A notification is being handled; it covers all / only some input channels.
DirtyFull ==
    /\ dirtyReq # <<>>
    /\ dirtyReq.stop[ChannelAxis] - dirtyReq.start[ChannelAxis]
           = inMeta.shape[ChannelAxis]
DirtyPartial ==
    /\ dirtyReq # <<>>
    /\ dirtyReq.stop[ChannelAxis] - dirtyReq.start[ChannelAxis]
           < inMeta.shape[ChannelAxis]

\* C9: a notification with the channels [s, e), not all input channels,
\* marks dirty exactly one region per table entry (blockStart, blockStop):
\* the channels [blockStart + s, blockStart + e) at the notification's
\* spatial region, and nothing else.
C9_PartialDirtyPerBlock ==
    DirtyPartial =>
        LET T == featureOutputChannels
            s == dirtyReq.start[ChannelAxis]
            e == dirtyReq.stop[ChannelAxis]
            expected(k) ==
                [start |-> [dirtyReq.start EXCEPT ![ChannelAxis] = T[k][1] + s],
                 stop |-> [dirtyReq.stop EXCEPT ![ChannelAxis] = T[k][1] + e]]
        IN  /\ Len(dirtyOut) = Len(T)
            /\ Range(dirtyOut) = {expected(k) : k \in 1..Len(T)}

-----------------------------------------------------------------------------
\* Claims: the writer's progress reports and completion

\* The progress reports made by the loop: progress[1] is the initial 0, the
\* report after the k-th block write is progress[k + 1].
BlockReports == counter

\* C11: in a write of N blocks the progress value reported after the k-th
\* block write, counting the block just written, is floor(100 * k / N).
C11_ProgressCountsWrittenBlock ==
    \A k \in 1..BlockReports :
        progress[k + 1] = (100 * k) \div Len(reqList)

NonDecreasing(s) == \A i \in 1..(Len(s) - 1) : s[i] <= s[i + 1]

\* C12: the progress values of a write that runs to completion start with 0,
\* end with 100 and never decrease from one report to the next.
C12_ProgressMonotone ==
    /\ NonDecreasing(progress)
    /\ wpc = "done" =>
          /\ progress[1] = 0
          /\ progress[Len(progress)] = 100
          /\ Len(progress) = Len(reqList) + 2

\* a completed write of several blocks, with the reports in between
C12_Witness ==
    /\ wpc = "done"
    /\ Len(reqList) >= 3
    /\ Len(progress) = Len(reqList) + 2
    /\ progress[Len(progress) - 1] > 0

Occurrences(s, x) == Cardinality({i \in 1..Len(s) : s[i] = x})

\* C13: when the success indicator is set every block of the partition has
\* been requested exactly once and written exactly once, and nothing is
\* unissued, in flight or unwritten.
C13_SuccessMeansAllWritten ==
    result0 =>
        /\ \A b \in Range(reqList) :
              /\ Occurrences(issued, b) = 1
              /\ Occurrences(written, b) = 1
        /\ Len(issued) = Len(reqList)
        /\ Len(written) = Len(reqList)
        /\ slicings = <<>>
        /\ activeRequests = <<>>
        /\ Outstanding = {}

\* success after a write with more blocks than the throttle admits at once
C13_Witness ==
    /\ result0
    /\ Len(reqList) > MaxOutstanding
    /\ Len(written) = Len(reqList)

\* The failed requests the writer has waited for.
FailuresMet ==
    {r \in failed : /\ r \in Range(issued)
                    /\ r \notin Range(activeRequests)
                    /\ ~(wpc = "wait" /\ req = r)}

\* C16: when a read request has failed and the writer has waited for it, the
\* write is aborted: the success indicator is not set, the failed request
\* was issued once and its block is not written, and from then on nothing
\* is issued or written and the success indicator stays unset.
C16_WriteAbortsOnFailedRead ==
    /\ [](FailuresMet # {} =>
            /\ wpc = "raised"
            /\ ~result0
            /\ FailuresMet = {req}
            /\ Occurrences(issued, req) = 1
            /\ req \notin Range(written))
    /\ [][wpc = "raised" =>
            /\ wpc' = "raised"
            /\ issued' = issued
            /\ written' = written
            /\ result0' = result0]_vars

\* the write was aborted after a block was written, with a block still
\* unissued and other requests in flight, one of them finished
C16_Witness ==
    /\ wpc = "raised"
    /\ Len(written) >= 1
    /\ Len(slicings) > 0
    /\ Len(activeRequests) > 0
    /\ completed \cap Range(activeRequests) # {}
-----------------------------------------------------------------------------
\* Claims: the writer's chunk shape and request partition

Axes(shape) == 1..Len(shape)

BlockInBounds(b, shape) ==
    \A i \in Axes(shape) : 0 <= b.start[i] /\ b.start[i] <= b.stop[i] /\ b.stop[i] <= shape[i]

BlocksMeet(b1, b2) ==
    \A i \in 1..Len(b1.start) :
        Max(b1.start[i], b2.start[i]) < Min(b1.stop[i], b2.stop[i])

RECURSIVE ProductOf(_)
ProductOf(s) == IF s = <<>> THEN 1 ELSE Head(s) * ProductOf(Tail(s))

BlockVolume(b) == ProductOf([i \in 1..Len(b.start) |-> b.stop[i] - b.start[i]])

\* the volumes of bs[lo..hi] added up, by halves
RECURSIVE SumVolumesIn(_, _, _)
SumVolumesIn(bs, lo, hi) ==
    IF lo > hi THEN 0
    ELSE IF lo = hi THEN BlockVolume(bs[lo])
    ELSE LET mid == (lo + hi) \div 2
         IN  SumVolumesIn(bs, lo, mid) + SumVolumesIn(bs, mid + 1, hi)

SumVolumes(bs) == SumVolumesIn(bs, 1, Len(bs))

\* C14: the blocks computeRequestSlicings returns tile the whole array: each
\* lies within the array, no two overlap, together they cover every element
\* (blocks inside the array that do not overlap cover it exactly when their
\* volumes add up to the array's), each extends at most chunkShape times
\* the axis multiplier, and each starts at a multiple of the chunk extent.
C14_BlocksTileTheArray ==
    stpc = "sliced" =>
        /\ \A k \in 1..Len(blocks) : BlockInBounds(blocks[k], image.shape)
        /\ \A k1, k2 \in 1..Len(blocks) :
              k1 < k2 => ~BlocksMeet(blocks[k1], blocks[k2])
        /\ SumVolumes(blocks) = ProductOf(image.shape)
        /\ \A k \in 1..Len(blocks) : \A i \in Axes(image.shape) :
              /\ blocks[k].stop[i] - blocks[k].start[i]
                    <= chunkShape[i] * multipliers(image.axistags[i])
              /\ blocks[k].start[i] % chunkShape[i] = 0

\* several blocks along two axes, the last of them cut off at the array's end
C14_Witness ==
    /\ stpc = "sliced"
    /\ Len(blocks) >= 4
    /\ \E i, j \in Axes(image.shape) :
          /\ i # j
          /\ \E k \in 1..Len(blocks) : blocks[k].start[i] > 0 /\ blocks[k].start[j] > 0
    /\ \E k \in 1..Len(blocks) : \E i \in Axes(image.shape) :
          /\ blocks[k].start[i] > 0
          /\ blocks[k].stop[i] - blocks[k].start[i]
                < chunkShape[i] * multipliers(image.axistags[i])

\* C15: the chunk shape of an accepted descriptor is at most the array shape
\* on every axis, is 1 on the Time axis and the channel count on the Channel
\* axis, and its extents times the element size stay within 300000 bytes.
C15_ChunkShapeWithinBudget ==
    stpc \in {"ready", "sliced"} =>
        /\ \A i \in Axes(image.shape) :
              /\ chunkShape[i] <= image.shape[i]
              /\ image.axistags[i] = "t" => chunkShape[i] = 1
              /\ image.axistags[i] = "c" => chunkShape[i] = image.shape[i]
        /\ ProductOf(chunkShape) * image.dtypeBytes <= ChunkByteBudget

\* C25: the chunk shape the writer derives has an extent of at least 1 on
\* every axis, for every array of positive extents, channel count and
\* element size, so that the step of the request blocks is not zero.
C25_ChunkExtentsPositive ==
    chunkShape # <<>> =>
        \A i \in 1..Len(chunkShape) : chunkShape[i] >= 1
-----------------------------------------------------------------------------
\* Claims: the channel loop of the windowed filter engine and its failures

\* channelsPerChannel of the filter of task k
TaskCpc(k) ==
    resultingChannels(featureOps[closures[k].row][closures[k].col].name,
                      inMeta.axistags)

\* The single channel writes of a run of the loop: <<d, o>> says that channel
\* d of the destination received output channel o of the filter.
PassWrites(p, cpc) ==
    {<<p.tkey[1] + n, p.input * cpc + p.sourceBegin + n>> :
        n \in 0..(p.sourceEnd - p.sourceBegin - 1)}

\* C20: a call of the engine for the output channels [a,b) with multiplicity
\* cpc processes the input channels floor(a/cpc) .. ceil(b/cpc)-1 and no
\* others, writes for input channel i just the output channels of
\* [i*cpc, (i+1)*cpc) that lie in [a,b), and writes every destination channel
\* of [0, b-a) exactly once, channel k receiving output channel a+k.
C20_ChannelLoopWritesEachChannelOnce ==
    \A k \in 1..Len(taskState) :
        taskState[k].status = "done" =>
            LET a == closures[k].begin
                b == closures[k].end
                cpc == TaskCpc(k)
                ps == taskState[k].passes
            IN  /\ Len(ps) = CeilDiv(b, cpc) - (a \div cpc)
                /\ \A n \in 1..Len(ps) : ps[n].input = (a \div cpc) + n - 1
                /\ \A n \in 1..Len(ps) :
                      /\ ps[n].tkey[2] - ps[n].tkey[1] = ps[n].sourceEnd - ps[n].sourceBegin
                      /\ {w[2] : w \in PassWrites(ps[n], cpc)} =
                            {o \in (ps[n].input * cpc)..((ps[n].input + 1) * cpc - 1) :
                                a <= o /\ o < b}
                /\ \A d \in 0..(b - a - 1) :
                      /\ Cardinality({n \in 1..Len(ps) :
                            \E w \in PassWrites(ps[n], cpc) : w[1] = d}) = 1
                      /\ \A n \in 1..Len(ps) : \A w \in PassWrites(ps[n], cpc) :
                            w[1] = d => w[2] = a + d
                /\ \A n \in 1..Len(ps) : \A w \in PassWrites(ps[n], cpc) :
                      0 <= w[1] /\ w[1] < b - a

\* a task for a filter with two output channels per input channel, asked for
\* a range that begins and ends inside the channels of an input channel
C20_Witness ==
    \E k \in 1..Len(taskState) :
        /\ taskState[k].status = "done"
        /\ TaskCpc(k) = 2
        /\ closures[k].begin = 1
        /\ closures[k].end = 3
        /\ Len(taskState[k].passes) = 2

\* Every channel of the destination of task k has been written.
TaskDestinationWritten(k) ==
    \A d \in 0..(closures[k].end - closures[k].begin - 1) :
        \E n \in 1..Len(taskState[k].passes) :
            \E w \in PassWrites(taskState[k].passes[n], TaskCpc(k)) : w[1] = d

\* C17: a compute call in which the filter failed inside a task does not
\* return normally: a return finds every task finished with its destination
\* channels written, a task whose filter raised is a failed task of the pool
\* with channels left unwritten, and with a failed task the call raises.
C17_FilterFailureFailsTheCall ==
    /\ epc = "returned" =>
          \A k \in 1..Len(taskState) :
              taskState[k].status = "done" /\ TaskDestinationWritten(k)
    /\ \A k \in 1..Len(taskState) :
          (taskState[k].status # "pending" /\ ~TaskDestinationWritten(k)) =>
              taskState[k].status = "failed" /\ epc \in {"waiting", "raised"}
    /\ (epc = "raised" /\ taskState # <<>>) =>
          \E k \in 1..Len(taskState) : taskState[k].status = "failed"

\* the call raised after one task failed in its second pass and another
\* task had finished
C17_Witness ==
    /\ epc = "raised"
    /\ \E k \in 1..Len(taskState) :
          taskState[k].status = "failed" /\ Len(taskState[k].passes) = 1
    /\ \E k \in 1..Len(taskState) : taskState[k].status = "done"
-----------------------------------------------------------------------------
\* Claims: rejected and empty configurations of the cascade

\* C18: a setup whose matrix does not fit the filter ids and the scale list
\* fails and has no effect: the published output shape and Channel Offset
\* Table stay as they were, and neither the matrix nor the scale list of the
\* rejected configuration replaces the ones compute calls read.
C18_RejectedSetupHasNoEffect ==
    [][setupErrors' # setupErrors =>
          /\ outShape' = outShape
          /\ featureOutputChannels' = featureOutputChannels
          /\ scales' = scales
          /\ matrix' = matrix]_vars

\* C19: after a setup with a matrix without an enabled cell the output is
\* published with zero channels and an empty Channel Offset Table, and a
\* compute call against it does not fail, builds no task and returns.
C19_EmptySelectionComputes ==
    (outShape # <<>> /\ spc = "idle" /\ AllZero(matrix)) =>
        /\ outShape[ChannelAxis] = 0
        /\ featureOutputChannels = <<>>
        /\ epc # "raised"
        /\ epc \in {"prepared", "waiting", "returned"} => closures = <<>>
-----------------------------------------------------------------------------
\* Claims: the two smoothing steps of the cascade

\* C21: for every scale of the scale list the two smoothing steps compose to
\* the nominal scale: the residual sigma of the shared presmoothing pass,
\* squared, plus the sigma configured on the feature's filter, squared, is
\* the scale squared (all in hundredths, the scales being held in tenths).
C21_SmoothingComposesToScale ==
    \A n \in 1..Len(presmoothed) :
        LET p == presmoothed[n] IN
        \A i \in 1..Len(matrix) :
            matrix[i][p.col] # 0 =>
                p.sigmaSq + featureOps[i][p.col].sigma * featureOps[i][p.col].sigma
                    = scales[p.col] * scales[p.col]
-----------------------------------------------------------------------------
\* Claims: what dirty propagation covers and what it leaves of its argument

\* Region r contains the notification's region on every axis but the
\* channel axis, and channel o on the channel axis.
CoversChannelOf(r, o) ==
    /\ r.start[ChannelAxis] <= o
    /\ o < r.stop[ChannelAxis]
    /\ \A ax \in 1..Len(r.start) :
          ax # ChannelAxis =>
              r.start[ax] <= dirtyReq.start[ax] /\ dirtyReq.stop[ax] <= r.stop[ax]

\* C22: dirty propagation never under-invalidates: for a notification with
\* the input channels [s, e), every output channel that depends on one of
\* them, blockStart + c*cpc + m with c in [s, e) and m in [0, cpc) in each
\* feature block, lies inside a region handed to Output.setDirty.
C22_NeverUnderInvalidates ==
    dirtyReq # <<>> =>
        LET T == featureOutputChannels
            numChannels == inMeta.shape[ChannelAxis]
            s == dirtyReq.start[ChannelAxis]
            e == dirtyReq.stop[ChannelAxis]
        IN  \A k \in 1..Len(T) :
                LET cpc == (T[k][2] - T[k][1]) \div numChannels
                IN  \A c \in s..(e - 1) : \A m \in 0..(cpc - 1) :
                        \E n \in 1..Len(dirtyOut) :
                            CoversChannelOf(dirtyOut[n], T[k][1] + c * cpc + m)

\* C23: every region handed to Output.setDirty is a region of the output:
\* 0 <= start <= stop <= shape of the output on every axis.
C23_EmittedRoiWithinOutput ==
    \A n \in 1..Len(dirtyOut) : \A ax \in 1..Len(outShape) :
        /\ 0 <= dirtyOut[n].start[ax]
        /\ dirtyOut[n].start[ax] <= dirtyOut[n].stop[ax]
        /\ dirtyOut[n].stop[ax] <= outShape[ax]

\* C24: propagateDirty leaves the roi it was handed as it arrived: when the
\* handler is through, start and stop of the notification's roi are those
\* of the notification.
C24_NotificationRoiUnchanged ==
    dirtyReq # <<>> => dirtyIn = dirtyReq
=============================================================================
